---- MODULE Spec2Model ----
(***************************************************************************)
(* django-prepared-properties: the dependency walk of resolution_order,    *)
(* the annotate loop of PropertiedQueryset.annotate_properties, the        *)
(* per-instance value store of NamedDescriptor (__get__ / __set__) and the *)
(* construction of AnnotatedProperty, directly and through the             *)
(* annotated_property decorator.                                           *)
(***************************************************************************)
EXTENDS Integers, Sequences, FiniteSets, TLC

(* ------------------------------ bounds -------------------------------- *)

\* declarations on the owner class
NumProps == 3
\* longest depends_on list of a declaration of an acyclic schema
MaxDeps == 2
\* longest depends_on list of a declaration of an arbitrary schema
MaxAnyDeps == 1
\* longest argument list of annotate_properties
MaxRequest == 2
\* the count of queue pushes saturates here
PushCap == 16
\* model instances
NumInstances == 2
\* descriptors bound to the model class
NumDescs == 3
\* longest depends_on argument of a declaration built in SpecDecl
MaxDeclDeps == 2

Props == 1..NumProps
\* a name in a depends_on list that is no attribute of the owner
Missing == 0
\* prop before the first popleft
NoProp == 0
Names == Props \cup {Missing}

Instances == 1..NumInstances
Descs == 1..NumDescs
FieldNames == {"people_count", "is_empty"}
\* the annotated values of the two groups of test_two
Values == {3, 5}
\* marks a key that is not in a _properties_cache dict
Absent == -1

VARIABLES
    \* ---- resolution_order / annotate_properties ----
    deps,               \* deps[p]: the _depends_on name list of declaration p
    properties,         \* the argument of annotate_properties
    property_st,        \* the deque of resolution_order
    prop,               \* the declaration popped last
    props_to_annotate,  \* the list of resolution_order
    pc,                 \* "idle", "walk", "expand", "annotate", "done", "raised"
    order,              \* the sequence resolution_order returned
    annotations,        \* field names annotated on the queryset, in order
    error,              \* the exception that left the call, or "none"
    pushes,             \* pushes onto the deque so far (saturating)
    \* ---- NamedDescriptor ----
    has_cache,          \* has_cache[i]: instance i has a _properties_cache
    cache,              \* cache[i][f]: the dict entry, or Absent
    was_prepared,       \* _was_prepared[d]
    written,            \* history: last value passed to __set__ per (i, f)
    op,                 \* the last descriptor operation and its result
    \* ---- AnnotatedProperty construction ----
    decl_args,          \* arguments of the last declaration
    declared            \* the declaration bound on the class

resolveVars == <<deps, properties, property_st, prop, props_to_annotate, pc,
                 order, annotations, error, pushes>>
storeVars == <<has_cache, cache, was_prepared, written, op>>
declVars == <<decl_args, declared>>
vars == <<resolveVars, storeVars, declVars>>

(* ------------------------- sequence helpers --------------------------- *)

Range(s) == {s[k] : k \in 1..Len(s)}

Reverse(s) == [k \in 1..Len(s) |-> s[Len(s) + 1 - k]]

SeqsUpTo(S, n) == UNION {[1..k -> S] : k \in 0..n}

Min(a, b) == IF a < b THEN a ELSE b

(* ------------------ resolution_order: the dependency walk ------------- *)

\* deque.appendleft of each element of s, in order
RECURSIVE AppendLeftAll(_, _)
AppendLeftAll(q, s) ==
    IF s = <<>> THEN q ELSE AppendLeftAll(<<Head(s)>> \o q, Tail(s))

\* the names of a depends_on list that the generator yields before it
\* meets a name that is no attribute of the owner
RECURSIVE ResolvedPrefix(_)
ResolvedPrefix(names) ==
    IF names = <<>> \/ Head(names) = Missing THEN <<>>
    ELSE <<Head(names)>> \o ResolvedPrefix(Tail(names))

\* getattr(self.owner, prop_name) fails for some name of the list
LookupFails(names) == Missing \in Range(names)

VisitAlways(visited, p) == Append(visited, p)

\* if prop not in props_to_annotate: props_to_annotate.append(prop)
Visit(visited, p) ==
    IF p \in Range(visited) THEN visited ELSE Append(visited, p)

\* annotate_properties(*properties): resolution_order starts, deque(properties)
Call(request) ==
    /\ pc = "idle"
    /\ properties' = request
    /\ property_st' = request
    /\ props_to_annotate' = <<>>
    /\ pushes' = Min(Len(request), PushCap)
    /\ pc' = "walk"
    /\ UNCHANGED <<deps, prop, order, annotations, error>>

\* the while test holds: prop = property_st.popleft()
Pop ==
    /\ pc = "walk"
    /\ property_st # <<>>
    /\ prop' = Head(property_st)
    /\ property_st' = Tail(property_st)
    /\ pc' = "expand"
    /\ UNCHANGED <<deps, properties, props_to_annotate, order, annotations,
                   error, pushes>>

\* the rest of the iteration: list prop if it is new, then push each
\* dependency the generator yields; an unknown name ends the call
Expand ==
    /\ pc = "expand"
    /\ LET pushed == ResolvedPrefix(deps[prop])
       IN /\ props_to_annotate' = Visit(props_to_annotate, prop)
          /\ property_st' = AppendLeftAll(property_st, pushed)
          /\ pushes' = Min(pushes + Len(pushed), PushCap)
          /\ IF LookupFails(deps[prop])
             THEN pc' = "raised" /\ error' = "AttributeError"
             ELSE pc' = "walk" /\ error' = error
    /\ UNCHANGED <<deps, properties, prop, order, annotations>>

\* the loop ends: return reversed(props_to_annotate)
Return ==
    /\ pc = "walk"
    /\ property_st = <<>>
    /\ order' = Reverse(props_to_annotate)
    /\ pc' = "annotate"
    /\ UNCHANGED <<deps, properties, property_st, prop, props_to_annotate,
                   annotations, error, pushes>>

\* one iteration of the for loop of annotate_properties
Annotate ==
    /\ pc = "annotate"
    /\ Len(annotations) < Len(order)
    /\ annotations' = Append(annotations, order[Len(annotations) + 1])
    /\ UNCHANGED <<deps, properties, property_st, prop, props_to_annotate,
                   pc, order, error, pushes>>

\* annotate_properties returns qs
Finish ==
    /\ pc = "annotate"
    /\ Len(annotations) = Len(order)
    /\ pc' = "done"
    /\ UNCHANGED <<deps, properties, property_st, prop, props_to_annotate,
                   order, annotations, error, pushes>>

(* --------------------------- schemas ---------------------------------- *)

\* acyclic schemas: declaration p names only declarations defined before it
RECURSIVE DagsUpTo(_)
DagsUpTo(n) ==
    IF n = 0 THEN {<<>>}
    ELSE {Append(g, l) : g \in DagsUpTo(n - 1), l \in SeqsUpTo(1..(n - 1), MaxDeps)}

AcyclicSchemas == DagsUpTo(NumProps)

\* arbitrary schemas: any name, the declaration itself and unknown names too
AnySchemas == [Props -> SeqsUpTo(Names, MaxAnyDeps)]

\* the diamond on four declarations, under every naming of them: a and b
\* depend on c, the fourth depends on a and b in that order
DiamondOf(a, b, c) ==
    [p \in 1..4 |-> IF p = c THEN <<>>
                    ELSE IF p \in {a, b} THEN <<c>>
                    ELSE <<a, b>>]

DiamondSchemas ==
    {DiamondOf(t[1], t[2], t[3]) :
        t \in {u \in (1..4) \X (1..4) \X (1..4) :
                  Cardinality({u[1], u[2], u[3]}) = 3}}

\* the declarations of the schema
Declared == DOMAIN deps

Requests == SeqsUpTo(Declared, MaxRequest)

(* ------------------------ graph vocabulary ---------------------------- *)

Targets(p) == Range(deps[p]) \cap Props

RECURSIVE ReachFrom(_)
ReachFrom(S) ==
    LET T == S \cup UNION {Targets(p) : p \in S}
    IN IF T = S THEN S ELSE ReachFrom(T)

\* the requested declarations and their transitive dependencies
Reach == ReachFrom(Range(properties))

EdgeCount(S) ==
    LET RECURSIVE Sum(_)
        Sum(T) == IF T = {} THEN 0
                  ELSE LET p == CHOOSE x \in T : TRUE
                       IN Len(deps[p]) + Sum(T \ {p})
    IN Sum(S)

CycleReachable == \E p \in Reach : p \in ReachFrom(Targets(p))

MissingReachable == \E p \in Reach : LookupFails(deps[p])

Returned == pc \in {"annotate", "done"}

InLoop == pc \in {"walk", "expand"}

(* ---------------------- NamedDescriptor: the store --------------------- *)

\* the descriptors of the model class: odd ones are stored under
\* "people_count", even ones under "is_empty" (a field name given to the
\* constructor may repeat the name of another descriptor)
FieldOf(d) == IF d % 2 = 1 THEN "people_count" ELSE "is_empty"

\* descriptors 1 and 4 have a getter, 2 and 3 have none
HasGetter(d) == d % 4 \in {0, 1}

\* the getter of the model class, e.g. Group.people_count
GetterValue(d, i) == d + i

EmptyDict == [f \in FieldNames |-> Absent]

\* an operation that returns nothing
NoResult == [outcome |-> "none", value |-> Absent, warned |-> FALSE,
             getter_called |-> FALSE]

\* getattr(instance, "_properties_cache", {})[self.field_name] finds a value
Holds(i, f) == has_cache[i] /\ cache[i][f] # Absent

\* __get__ on an instance: the cached value, else AttributeError without a
\* getter, else a warning and getter(instance)
GetOutcome(d, i) ==
    IF Holds(i, FieldOf(d))
    THEN [outcome |-> "cached", value |-> cache[i][FieldOf(d)],
          warned |-> FALSE, getter_called |-> FALSE]
    ELSE IF ~HasGetter(d)
    THEN [outcome |-> "AttributeError", value |-> Absent, warned |-> FALSE,
          getter_called |-> FALSE]
    ELSE [outcome |-> "computed", value |-> GetterValue(d, i),
          warned |-> TRUE, getter_called |-> TRUE]

CacheAfterGetMemo(c, d, i) ==
    IF has_cache[i] /\ c[i][FieldOf(d)] = Absent /\ HasGetter(d)
    THEN [c EXCEPT ![i][FieldOf(d)] = GetterValue(d, i)]
    ELSE c

\* __get__ assigns nothing to instance._properties_cache
CacheAfterGet(c, d, i) == c

CacheAfterSetFresh(c, hc, i, f, v) ==
    [c EXCEPT ![i] = [EmptyDict EXCEPT ![f] = v]]

\* __set__: create the dict when the instance has none, then store the value
CacheAfterSet(c, hc, i, f, v) ==
    LET dict == IF hc[i] THEN c[i] ELSE EmptyDict
    IN [c EXCEPT ![i] = [dict EXCEPT ![f] = v]]

\* instance.<property>
DescriptorGet(d, i) ==
    /\ op' = [name |-> "get", desc |-> d, inst |-> i,
              result |-> GetOutcome(d, i)]
    /\ cache' = CacheAfterGet(cache, d, i)
    /\ UNCHANGED <<has_cache, was_prepared, written>>

\* Model.<property>: the descriptor object itself
DescriptorGetOnClass(d) ==
    /\ op' = [name |-> "get", desc |-> d, inst |-> 0,
              result |-> [outcome |-> "descriptor", value |-> d,
                          warned |-> FALSE, getter_called |-> FALSE]]
    /\ UNCHANGED <<has_cache, cache, was_prepared, written>>

\* instance.<property> = value, as ModelIterable does for each annotation
DescriptorSet(d, i, v) ==
    /\ cache' = CacheAfterSet(cache, has_cache, i, FieldOf(d), v)
    /\ has_cache' = [has_cache EXCEPT ![i] = TRUE]
    /\ was_prepared' = [was_prepared EXCEPT ![d] = TRUE]
    /\ written' = [written EXCEPT ![i][FieldOf(d)] = v]
    /\ op' = [name |-> "set", desc |-> d, inst |-> i, result |-> NoResult]

(* ------------------ AnnotatedProperty construction -------------------- *)

PyNone == [t |-> "none", s |-> "", l |-> <<>>]
PyStr(s) == [t |-> "str", s |-> s, l |-> <<>>]
PyList(l) == [t |-> "list", s |-> "", l |-> l]
PyFunc(name) == [t |-> "func", s |-> name, l |-> <<>>]

\* Python truth value
Truthy(v) ==
    \/ v.t = "func"
    \/ v.t = "str" /\ v.s # ""
    \/ v.t = "list" /\ v.l # <<>>

\* a or b
Or(a, b) == IF Truthy(a) THEN a ELSE b

\* getattr(getter, "__name__", None)
GetName(getter) == IF getter.t = "func" THEN PyStr(getter.s) ELSE PyNone

\* AnnotatedProperty(annotation, getter, field_name, depends_on)
AnnotatedPropertyInit(annotation, getter, fname, depends_on) ==
    [field_name |-> Or(fname, GetName(getter)),
     getter |-> getter,
     annotation |-> annotation,
     depends_on |-> Or(depends_on, PyList(<<>>)),
     was_prepared |-> FALSE]

\* annotated_property(subquery, depends_on)(getter)
FactoryCall(subquery, depends_on, getter) ==
    AnnotatedPropertyInit(subquery, getter, depends_on, PyNone)

\* __set_name__(owner, attr)
SetName(decl, attr) ==
    IF ~Truthy(decl.field_name) THEN [decl EXCEPT !.field_name = PyStr(attr)]
    ELSE decl

Annotations == {"Subquery", "F"}
GetterArgs == {PyFunc(f) : f \in FieldNames}
FieldNameArgs == {PyNone, PyStr("")} \cup {PyStr(f) : f \in FieldNames}
DependsOnArgs ==
    {PyNone} \cup {PyList(l) : l \in SeqsUpTo(FieldNames, MaxDeclDeps)}

NoDecl == [field_name |-> PyNone, getter |-> PyNone, annotation |-> "",
           depends_on |-> PyNone, was_prepared |-> FALSE]
NoArgs == [via |-> "none", annotation |-> "", getter |-> PyNone,
           field_name |-> PyNone, depends_on |-> PyNone, attr |-> ""]

\* @annotated_property(annotation, depends_on=L) over def g in a class body
DeclareDecorated(annotation, depends_on, getter) ==
    /\ decl_args' = [via |-> "decorator", annotation |-> annotation,
                     getter |-> getter, field_name |-> PyNone,
                     depends_on |-> depends_on, attr |-> getter.s]
    /\ declared' = SetName(FactoryCall(annotation, depends_on, getter), getter.s)

\* attr = AnnotatedProperty(annotation, getter=, field_name=, depends_on=)
DeclareDirect(annotation, getter, fname, depends_on, attr) ==
    /\ decl_args' = [via |-> "constructor", annotation |-> annotation,
                     getter |-> getter, field_name |-> fname,
                     depends_on |-> depends_on, attr |-> attr]
    /\ declared' = SetName(
           AnnotatedPropertyInit(annotation, getter, fname, depends_on), attr)

(* ---------------------------- specifications -------------------------- *)

ResolveIdle ==
    /\ properties = <<>>
    /\ property_st = <<>>
    /\ prop = NoProp
    /\ props_to_annotate = <<>>
    /\ pc = "idle"
    /\ order = <<>>
    /\ annotations = <<>>
    /\ error = "none"
    /\ pushes = 0

StoreIdle ==
    /\ has_cache = [i \in Instances |-> FALSE]
    /\ cache = [i \in Instances |-> EmptyDict]
    /\ was_prepared = [d \in Descs |-> FALSE]
    /\ written = [i \in Instances |-> EmptyDict]
    /\ op = [name |-> "none", desc |-> 0, inst |-> 0, result |-> NoResult]

DeclIdle ==
    /\ decl_args = NoArgs
    /\ declared = NoDecl

\* any schema: unknown names, self-dependencies and cycles included
Init ==
    /\ deps \in AnySchemas
    /\ ResolveIdle
    /\ StoreIdle
    /\ DeclIdle

\* acyclic schemas in which every name resolves
InitAcyclic ==
    /\ deps \in AcyclicSchemas
    /\ ResolveIdle
    /\ StoreIdle
    /\ DeclIdle

InitDiamond ==
    /\ deps \in DiamondSchemas
    /\ ResolveIdle
    /\ StoreIdle
    /\ DeclIdle

\* nothing requested, read, written or declared yet
InitIdle ==
    /\ deps = [p \in Props |-> <<>>]
    /\ ResolveIdle
    /\ StoreIdle
    /\ DeclIdle

Next ==
    \/ \E request \in Requests : Call(request) /\ UNCHANGED <<storeVars, declVars>>
    \/ Pop /\ UNCHANGED <<storeVars, declVars>>
    \/ Expand /\ UNCHANGED <<storeVars, declVars>>
    \/ Return /\ UNCHANGED <<storeVars, declVars>>
    \/ Annotate /\ UNCHANGED <<storeVars, declVars>>
    \/ Finish /\ UNCHANGED <<storeVars, declVars>>

NextStore ==
    \/ \E d \in Descs, i \in Instances :
          DescriptorGet(d, i) /\ UNCHANGED <<resolveVars, declVars>>
    \/ \E d \in Descs :
          DescriptorGetOnClass(d) /\ UNCHANGED <<resolveVars, declVars>>
    \/ \E d \in Descs, i \in Instances, v \in Values :
          DescriptorSet(d, i, v) /\ UNCHANGED <<resolveVars, declVars>>

NextDecl ==
    \/ \E a \in Annotations, l \in DependsOnArgs, g \in GetterArgs :
          DeclareDecorated(a, l, g) /\ UNCHANGED <<resolveVars, storeVars>>
    \/ \E a \in Annotations, g \in GetterArgs \cup {PyNone},
          fn \in FieldNameArgs, l \in DependsOnArgs, attr \in FieldNames :
          DeclareDirect(a, g, fn, l, attr) /\ UNCHANGED <<resolveVars, storeVars>>

Spec == Init /\ [][Next]_vars

\* the interpreter runs the call to its end: no step is postponed forever
SpecFair == Init /\ [][Next]_vars /\ WF_vars(Next)

SpecAcyclic == InitAcyclic /\ [][Next]_vars

SpecDiamond == InitDiamond /\ [][Next]_vars

SpecStore == InitIdle /\ [][NextStore]_vars

SpecDecl == InitIdle /\ [][NextDecl]_vars

(* ------------------------------- claims ------------------------------- *)

IndexOf(s, x) == CHOOSE k \in 1..Len(s) : s[k] = x

Occurrences(s, x) == Cardinality({k \in 1..Len(s) : s[k] = x})

\* every direct dependency of s[k] stands at an index below k
DepsFirst(s) ==
    \A k \in 1..Len(s) : \A q \in Targets(s[k]) :
        \E j \in 1..(k - 1) : s[j] = q

\* C1: on an acyclic schema the returned order places every direct
\* dependency of a declaration before the declaration, and the annotate loop
\* annotates a property only after the properties it depends on.
C1_OrderingInvariant ==
    /\ Returned => DepsFirst(order)
    /\ DepsFirst(annotations)

\* C2: on an acyclic schema the returned order holds exactly the requested
\* declarations and their transitive dependencies, each exactly once.
C2_Completeness ==
    Returned =>
        /\ Range(order) = Reach
        /\ \A p \in Reach : Occurrences(order, p) = 1
        /\ Len(order) = Cardinality(Reach)

\* C2 witness: a request that repeats a declaration with a dependency was
\* resolved while another declaration of the schema stayed out of the order
C2_Witness ==
    /\ pc = "done"
    /\ Len(properties) = 2
    /\ properties[1] = properties[2]
    /\ Len(order) >= 2
    /\ Range(order) # Declared

\* C3: when a declaration reachable from the request depends on itself,
\* directly or transitively, the call ends in a cyclic-dependency error; it
\* returns no order and does not run forever.  Stated over the requests all
\* of whose names resolve, where no lookup error can end the call first.
C3_CycleDetection ==
    (CycleReachable /\ ~MissingReachable)
        ~> (pc = "raised" /\ error = "CyclicDependencyError")

\* C4: for a diamond (A and B depend on C, D depends on A and B in either
\* order) resolution_order([D]) returns the four declarations with C once,
\* C before A and B, and A and B before D.
C4_DiamondDedup ==
    \A a, b, c, d \in Declared :
        ( /\ Cardinality({a, b, c, d}) = 4
          /\ deps[a] = <<c>> /\ deps[b] = <<c>> /\ deps[c] = <<>>
          /\ deps[d] \in {<<a, b>>, <<b, a>>}
          /\ properties = <<d>>
          /\ Returned )
        => /\ Len(order) = 4
           /\ Range(order) = {a, b, c, d}
           /\ Occurrences(order, c) = 1
           /\ IndexOf(order, c) < IndexOf(order, a)
           /\ IndexOf(order, c) < IndexOf(order, b)
           /\ IndexOf(order, a) < IndexOf(order, d)
           /\ IndexOf(order, b) < IndexOf(order, d)

\* what an unprepared read of descriptor d on instance i gives
Unprepared(d, i) ==
    IF HasGetter(d)
    THEN [outcome |-> "computed", value |-> GetterValue(d, i),
          warned |-> TRUE, getter_called |-> TRUE]
    ELSE [outcome |-> "AttributeError", value |-> Absent, warned |-> FALSE,
          getter_called |-> FALSE]

\* C5: a read of a property whose field name has no value in the instance's
\* cache raises AttributeError without a getter, and otherwise warns and
\* returns getter(instance); the read stores nothing, so the cache is as it
\* was and every read of the instance has the outcome it had before.
C5_UnpreparedAccess ==
    [][ (op'.name = "get" /\ op'.inst \in Instances
            /\ ~Holds(op'.inst, FieldOf(op'.desc)))
        => /\ op'.result = Unprepared(op'.desc, op'.inst)
           /\ cache' = cache
           /\ has_cache' = has_cache
           /\ \A d \in Descs, i \in Instances : GetOutcome(d, i)' = GetOutcome(d, i)
      ]_vars

\* C5 witness: an unprepared read fell back to the getter with a warning on
\* an instance whose cache holds a value for another field name
C5_Witness ==
    /\ op.name = "get"
    /\ op.inst \in Instances
    /\ op.result.outcome = "computed"
    /\ op.result.warned
    /\ has_cache[op.inst]
    /\ ~Holds(op.inst, FieldOf(op.desc))

\* the outcome of a read that finds value v
Prepared(v) ==
    [outcome |-> "cached", value |-> v, warned |-> FALSE,
     getter_called |-> FALSE]

\* C6: a read returns the value most recently written for its (instance,
\* field name) pair, without the getter and without a warning, whatever was
\* written to other instances and other field names in between.
C6_PerInstanceStore ==
    /\ \A d \in Descs, i \in Instances :
          written[i][FieldOf(d)] # Absent
              => GetOutcome(d, i) = Prepared(written[i][FieldOf(d)])
    /\ (op.name = "get" /\ op.inst \in Instances
            /\ written[op.inst][FieldOf(op.desc)] # Absent)
        => op.result = Prepared(written[op.inst][FieldOf(op.desc)])

\* C6 witness: a read returned the written value while another instance
\* holds a different value for the same field name and the same instance
\* holds a different value for another field name
C6_Witness ==
    /\ op.name = "get"
    /\ op.inst \in Instances
    /\ op.result.outcome = "cached"
    /\ \E j \in Instances \ {op.inst} :
          /\ written[j][FieldOf(op.desc)] # Absent
          /\ written[j][FieldOf(op.desc)] # op.result.value
    /\ \E f \in FieldNames \ {FieldOf(op.desc)} :
          /\ written[op.inst][f] # Absent
          /\ written[op.inst][f] # op.result.value

\* C7: when a declaration reachable from the request names a dependency
\* that is no attribute of its owner, the call ends in a lookup error, with
\* no order returned and no annotation applied.
C7_UnresolvableDependency ==
    MissingReachable
        ~> (pc = "raised" /\ error = "AttributeError"
            /\ order = <<>> /\ annotations = <<>>)

\* C8: the while loop of resolution_order ends, cycles included.
C8_Termination == InLoop ~> ~InLoop

\* C9: on an acyclic schema the pushes onto the deque never exceed the
\* length of the request plus the number of edges of the reachable subgraph.
C9_BoundedPushes ==
    pushes <= Len(properties) + EdgeCount(Reach)

\* C10: the decorator form gives the declaration the constructor gives for
\* getter=g and depends_on=L: named after g, depending on the names of L.
C10_DecoratorEquivalence ==
    decl_args.via = "decorator" =>
        /\ declared = SetName(AnnotatedPropertyInit(decl_args.annotation,
                                  decl_args.getter, PyNone,
                                  decl_args.depends_on), decl_args.attr)
        /\ declared.field_name = PyStr(decl_args.getter.s)
        /\ declared.depends_on = Or(decl_args.depends_on, PyList(<<>>))

====
